---- MODULE Spec2Model ----
(***************************************************************************)
(* Model of the polling sketch src/minecraftwifi.ino: one cycle of loop()  *)
(* is fetchServerStatus() (connect with retries, write the request, wait   *)
(* for the first byte, extract the braces-delimited JSON, deserialize),    *)
(* then either the error strobe or reconcile + render, then the delay.     *)
(*                                                                         *)
(* Sizes are scaled down so that every boundary is reached: the capacity   *)
(* MAX_JSON_SIZE is 8 bytes instead of 1024, the first-byte budget is 3    *)
(* polling intervals instead of 300.                                       *)
(*                                                                         *)
(* Wire alphabet.  A response is a sequence of one-character strings:      *)
(*   "{" "}"  the brace bytes the extraction loop counts,                  *)
(*   "p"      the key of the players member (the member's value follows),  *)
(*   "a" "b"  an entry of the sample array, naming Alice or Bob,           *)
(*   "n" "1"  the online member of the players object, -1 or 1 (a players  *)
(*            object without it reads as online = 0),                      *)
(*   "x"      any other byte (HTTP header byte, other JSON member byte).   *)
(* The extraction loop treats every byte that is not a brace alike, so the *)
(* abstraction only matters to the deserializer.                           *)
(***************************************************************************)
EXTENDS Integers, Sequences, FiniteSets, TLC

\* ---------------------------------------------------------------- constants
MAX_JSON_SIZE == 8
CONNECTION_RETRIES == 3
MAX_RESPONSE_WAIT_TIME_MS == 300
RESPONSE_WAIT_INTERVAL_MS == 100
NUM_PLAYERS == 2
NUM_LEDS == 3

\* The longest sample array the server sends.
MaxSample == 2

Slots == 0 .. (NUM_PLAYERS - 1)
Leds == 0 .. (NUM_LEDS - 1)

\* PlayerLed::name: the empty string is the wildcard.
Wildcard == ""
Names == {"Alice", "Bob"}
Identities == Names \cup {Wildcard}

COLOR_OFF == "Off"
COLOR_ERROR == "Error"
COLOR_ONLINE == "Online"
COLOR_JOINED == "Joined"
COLOR_LEFT == "Left"

\* ---------------------------------------------------------------- the peer
NameByte == [Alice |-> "a", Bob |-> "b"]

NameOfByte(b) == IF b = "a" THEN "Alice" ELSE "Bob"

RECURSIVE Fill(_)
Fill(n) == IF n <= 0 THEN <<>> ELSE <<"x">> \o Fill(n - 1)

RECURSIVE EncodeSample(_)
EncodeSample(names) ==
  IF names = <<>> THEN <<>>
  ELSE <<NameByte[Head(names)]>> \o EncodeSample(Tail(names))

\* The status document the proxy sends when players are reported.
PlayersDoc(names) == <<"{", "p", "{">> \o EncodeSample(names) \o <<"}", "}">>

\* The same with an online member, c being its byte.
CountDoc(c, names) ==
  <<"{", "p", "{", c>> \o EncodeSample(names) \o <<"}", "}">>

\* players.online as the byte gives it.
OnlineOfByte(c) == IF c = "n" THEN -1 ELSE 1

\* A JSON object with n bytes of other members and no players member.
OtherDoc(n) == <<"{">> \o Fill(n) \o <<"}">>

SampleLists == UNION { [1 .. k -> Names] : k \in 0 .. MaxSample }

\* Lengths around the capacity: a body of MAX_JSON_SIZE - 1 bytes is the
\* longest that leaves room for the terminator.
FillCounts == {1, MAX_JSON_SIZE - 3, MAX_JSON_SIZE - 2, MAX_JSON_SIZE - 1}

BalancedBodies ==
  { PlayersDoc(s) : s \in SampleLists } \cup { OtherDoc(n) : n \in FillCounts }

\* Bodies that report a count, negative or positive, with at most one name.
CountBodies ==
  { CountDoc(c, s) : c \in {"n", "1"},
                     s \in { l \in SampleLists : Len(l) <= 1 } }

\* A body cut short by the server: the braces never close.
BrokenBodies == { <<"{", "p", "{", "a">> }

Response(pre, body, post) == [pre |-> pre, body |-> body, post |-> post]

\* Responses with an HTTP header before the body and nothing after it.
PlainResponses ==
  { Response(<<"x">>, b, <<>>) : b \in BalancedBodies \cup BrokenBodies }

\* Responses with every kind of preamble and trailer, a stray closing brace
\* before the body included.
AllResponses ==
  { Response(pre, b, post) :
      pre \in {<<>>, <<"x">>, <<"}", "x">>},
      b \in BalancedBodies \cup BrokenBodies,
      post \in {<<>>, <<"x">>} }

\* The plain responses and those that report a count.
CountResponses ==
  PlainResponses \cup { Response(<<"x">>, b, <<>>) : b \in CountBodies }

NoResponse == Response(<<>>, <<>>, <<>>)

Stream(r) == r.pre \o r.body \o r.post

AllRosters == [Slots -> Identities]

VARIABLES
  responses,     \* the responses the peer may send (fixed by Init)
  roster,        \* players[p].name
  wasOnline,     \* players[p].wasOnline
  isOnline,      \* players[p].isOnline
  pc,            \* position of the single thread of control
  retries,       \* fetchServerStatus: retries
  waitMs,        \* fetchServerStatus: waitMs
  inBraces,      \* fetchServerStatus: inBraces
  jsonBufferPos, \* global jsonBufferPos
  jsonBuffer,    \* global jsonBuffer: the bytes before the terminator
  status,        \* loop(): status
  emptyArray,    \* global emptyArray, which every status.playersSample aliases
  response,      \* what the peer sends on this cycle's connection
  arrived,       \* bytes of it that reached the client's receive buffer
  nread,         \* bytes of it client.read() returned
  strip,         \* the pixels as strip.show() last put them on the strip
  pixels,        \* the strip object's pixel buffer, as setPixelColor left it
  strobeI,       \* strobeColor: i
  serialLine,    \* the last message line fetchServerStatus wrote to Serial
                 \* in this cycle
  attempts,      \* history: client.connect calls of this cycle's connect loop,
                 \* forgotten when the request is written
  connected,     \* history: a client.connect call of this cycle succeeded
  requests,      \* history: client.print calls of this cycle
  lastWrite,     \* history: index of the latest write to jsonBuffer, -1 if none
  lastAppend,    \* history: depth at the latest append of this extraction
  atStart,       \* history: the slots' flags when this cycle started
  claimed,       \* history: isOnline as the latest successful render saw it
  successes,     \* history: successful cycles so far, counted up to 2
  observed,      \* history: names of the latest successful cycle
  sameObserved,  \* history: the names this cycle parsed are those of the
                 \* successful cycle before it (until this cycle has rendered)
  color,         \* history: colors the latest successful render derived
  polls,         \* history: polling intervals this cycle has waited for a
                 \* first byte, forgotten when the byte is there
  lateByte,      \* history: a byte had arrived when the wait gave up
  setLog,        \* history: setPixelColor requests of this cycle's render
  commits        \* history: strip.show() calls of this cycle's render

vars == <<responses, roster, wasOnline, isOnline, pc, retries, waitMs, inBraces,
          jsonBufferPos, jsonBuffer, status, emptyArray, response, arrived,
          nread, strip, attempts, connected, requests, lastWrite, lastAppend,
          atStart, claimed, successes, observed, sameObserved, color, pixels,
          strobeI, serialLine, polls, lateByte, setLog, commits>>

\* ------------------------------------------------------------ pure functions
\* Mutant: the strlen(name) == 0 test is lost.
Matches_ExactOnly(name, str) == str = name

\* PlayerLed::matches
Matches(name, str) == name = "" \/ str = name

\* Mutant: wasOnline = isOnline is lost.
GetColorAndUpdate_NoUpdate(was, is) ==
  [color |-> IF was /\ is THEN COLOR_ONLINE
             ELSE IF was /\ ~is THEN COLOR_LEFT
             ELSE IF ~was /\ is THEN COLOR_JOINED
             ELSE COLOR_OFF,
   wasOnline |-> was]

\* PlayerLed::getColorAndUpdate: the color returned and the new wasOnline.
GetColorAndUpdate(was, is) ==
  [color |-> IF was /\ is THEN COLOR_ONLINE
             ELSE IF was /\ ~is THEN COLOR_LEFT
             ELSE IF ~was /\ is THEN COLOR_JOINED
             ELSE COLOR_OFF,
   wasOnline |-> is]

\* Mutant: the break is lost, every matching slot is set.
SetFirstMatch_NoBreak(ros, on, name, p) ==
  [q \in Slots |-> on[q] \/ (q >= p /\ (ros[q] = "" \/ ros[q] = name))]

\* loop(): the inner scan "for p ... if matches then setOnline, break".
RECURSIVE SetFirstMatch(_, _, _, _)
SetFirstMatch(ros, on, name, p) ==
  IF p >= NUM_PLAYERS THEN on
  ELSE IF Matches(ros[p], name) THEN [on EXCEPT ![p] = TRUE]
  ELSE SetFirstMatch(ros, on, name, p + 1)

\* loop(): the scan over status.playersSample, entry i onwards.
RECURSIVE MatchSample(_, _, _, _)
MatchSample(ros, on, sample, i) ==
  IF i > Len(sample) THEN on
  ELSE MatchSample(ros, SetFirstMatch(ros, on, sample[i], 0), sample, i + 1)

\* deserializeJson on the terminated buffer, and the lookups that follow it.
\* A buffer that is not one complete object is a DeserializationError.
HasOnline(buf) == Len(buf) >= 6 /\ buf[4] \in {"n", "1"}

\* Index of the byte before the first sample entry.
SampleBase(buf) == IF HasOnline(buf) THEN 4 ELSE 3

IsPlayersDoc(buf) ==
  /\ Len(buf) >= 5
  /\ SubSeq(buf, 1, 3) = <<"{", "p", "{">>
  /\ SubSeq(buf, Len(buf) - 1, Len(buf)) = <<"}", "}">>
  /\ \A i \in (SampleBase(buf) + 1) .. (Len(buf) - 2) : buf[i] \in {"a", "b"}

IsOtherDoc(buf) ==
  /\ Len(buf) >= 2
  /\ buf[1] = "{"
  /\ buf[Len(buf)] = "}"
  /\ \A i \in 2 .. (Len(buf) - 1) : buf[i] = "x"

Deserialize(buf) ==
  IF IsPlayersDoc(buf)
  THEN [error |-> FALSE, players |-> TRUE,
        online |-> IF HasOnline(buf) THEN OnlineOfByte(buf[4]) ELSE 0,
        sample |-> [i \in 1 .. (Len(buf) - 2 - SampleBase(buf)) |->
                      NameOfByte(buf[i + SampleBase(buf)])]]
  ELSE IF IsOtherDoc(buf)
  THEN [error |-> FALSE, players |-> FALSE, online |-> 0, sample |-> <<>>]
  ELSE [error |-> TRUE, players |-> FALSE, online |-> 0, sample |-> <<>>]

\* client.available()
Available == arrived - nread

\* ServerStatus::ServerStatus(err, num): playersSample is bound to emptyArray.
ServerStatus(err, num) == [error |-> err, numOnline |-> num]

\* Mutant: the error flag is lost.
OfError_Unflagged == ServerStatus(FALSE, 0)

\* ServerStatus::ofError
OfError == ServerStatus(TRUE, 0)

\* ------------------------------------------------------------------- state
NoAppend == [did |-> FALSE, depth |-> 0]

InitCommon ==
  /\ wasOnline = [p \in Slots |-> FALSE]
  /\ isOnline = [p \in Slots |-> FALSE]
  /\ pc = "fetch"
  /\ retries = 0
  /\ waitMs = 0
  /\ inBraces = 0
  /\ jsonBufferPos = 0
  /\ jsonBuffer = <<>>
  /\ status = ServerStatus(FALSE, 0)
  /\ emptyArray = <<>>
  /\ response = NoResponse
  /\ arrived = 0
  /\ nread = 0
  /\ strip = [i \in Leds |-> COLOR_OFF]
  /\ attempts = 0
  /\ connected = FALSE
  /\ requests = 0
  /\ lastWrite = -1
  /\ lastAppend = NoAppend
  /\ atStart = [was |-> wasOnline, is |-> isOnline]
  /\ claimed = [p \in Slots |-> FALSE]
  /\ successes = 0
  /\ observed = <<>>
  /\ sameObserved = FALSE
  /\ color = [p \in Slots |-> COLOR_OFF]
  /\ pixels = [i \in Leds |-> COLOR_OFF]
  /\ strobeI = 0
  /\ serialLine = ""
  /\ polls = 0
  /\ lateByte = FALSE
  /\ setLog = <<>>
  /\ commits = 0

\* Every roster, against a server that answers with a header and a body.
Init ==
  /\ roster \in AllRosters
  /\ responses = PlainResponses
  /\ InitCommon

\* One roster, against every shape of response.
InitStream ==
  /\ roster = [p \in Slots |-> IF p = 0 THEN "Alice" ELSE Wildcard]
  /\ responses = AllResponses
  /\ InitCommon

\* One roster, against a server that also reports counts.
InitFair ==
  /\ roster = [p \in Slots |-> IF p = 0 THEN "Alice" ELSE Wildcard]
  /\ responses = CountResponses
  /\ InitCommon

config == <<responses, roster>>
players == <<wasOnline, isOnline>>
locals == <<retries, waitMs, inBraces>>
buffer == <<jsonBufferPos, jsonBuffer>>
wire == <<response, arrived, nread>>
connHist == <<attempts, connected, requests>>
bufHist == <<lastWrite, lastAppend>>
cycleHist == <<claimed, successes, color>>
obsHist == <<observed, sameObserved>>
waitHist == <<polls, lateByte>>
display == <<strip, pixels, strobeI>>
renderHist == <<setLog, commits>>

\* fetchServerStatus returns ofError(): its locals and the client go away.
ReturnError ==
  /\ status' = OfError
  /\ pc' = "failed"
  /\ retries' = 0
  /\ waitMs' = 0
  /\ inBraces' = 0
  /\ response' = NoResponse
  /\ arrived' = 0
  /\ nread' = 0

\* --------------------------------------------------------- fetchServerStatus
\* Mutant: one attempt too many.
OutOfRetries_Late(r) == r < 0

\* if (--retries <= 0), on the decremented value
OutOfRetries(r) == r <= 0

\* if (waitMs <= 0), on the decremented value
WaitExpired(ms) == ms <= 0

\* if (inBraces): any depth but 0
ShouldAppend(depth) == depth # 0

\* Mutant: the check comes one byte too late.
BufferFull_Late(pos) == pos > MAX_JSON_SIZE

\* if (jsonBufferPos >= MAX_JSON_SIZE), on the incremented position
BufferFull(pos) == pos >= MAX_JSON_SIZE

\* while (client.available()): the loop goes on while this holds
MoreToRead(avail) == avail > 0

\* Mutant: a document without a players member passes as nobody online.
MissingPlayers_Accepted(doc) == FALSE

\* if (jsonDoc[F("players")] == NULL)
MissingPlayers(doc) == ~doc.players

\* What emptyArray may read as once deserializeJson has cleared and refilled
\* the document its handle pointed into.  The handle dangles: it reads the
\* entries that were there, or none.
StaleSamples(old) == {old, <<>>}

\* The locals of a new call; the history of the new cycle.
BeginFetch ==
  /\ pc = "fetch"
  /\ pc' = "connect"
  /\ retries' = CONNECTION_RETRIES
  /\ attempts' = 0
  /\ connected' = FALSE
  /\ requests' = 0
  /\ lastWrite' = -1
  /\ lastAppend' = NoAppend
  /\ atStart' = [was |-> wasOnline, is |-> isOnline]
  /\ serialLine' = ""
  /\ polls' = 0
  /\ lateByte' = FALSE
  /\ setLog' = <<>>
  /\ commits' = 0
  /\ UNCHANGED <<config, players, waitMs, inBraces, buffer, status, emptyArray,
                 wire, display, cycleHist, obsHist>>

\* One pass of the while (true) loop: client.connect succeeds or fails.
\* A local that no later statement reads is set to 0 when its loop is left.
Connect(ok) ==
  /\ pc = "connect"
  /\ attempts' = attempts + 1
  /\ connected' = ok
  /\ IF ok
     THEN /\ pc' = "request"
          /\ retries' = 0
          /\ serialLine' = "connecting to"
          /\ UNCHANGED <<waitMs, inBraces, status, wire>>
     ELSE /\ serialLine' = "connection failed"
          /\ IF OutOfRetries(retries - 1)
             THEN ReturnError
             ELSE /\ retries' = retries - 1
                  /\ pc' = "connect"
                  /\ UNCHANGED <<waitMs, inBraces, status, wire>>
  /\ UNCHANGED <<config, players, buffer, emptyArray, display, requests,
                 bufHist, atStart, cycleHist, obsHist, waitHist, renderHist>>

\* client.print of the request; the peer decides what it will answer.
SendRequest ==
  /\ pc = "request"
  /\ requests' = requests + 1
  /\ attempts' = 0
  /\ \E r \in responses : response' = r
  /\ arrived' = 0
  /\ nread' = 0
  /\ waitMs' = MAX_RESPONSE_WAIT_TIME_MS
  /\ serialLine' = "Waiting for response."
  /\ pc' = "wait"
  /\ UNCHANGED <<config, players, retries, inBraces, buffer, status, emptyArray,
                 display, connected, bufHist, atStart, cycleHist, obsHist,
                 waitHist, renderHist>>

\* The network delivers the next byte of the response to the client.
Arrive ==
  /\ pc \in {"wait", "waitDelay", "extract"}
  /\ arrived < Len(Stream(response))
  /\ arrived' = arrived + 1
  /\ UNCHANGED <<config, players, pc, locals, buffer, status, emptyArray,
                 response, nread, display, connHist, bufHist, atStart,
                 cycleHist, obsHist, serialLine, waitHist, renderHist>>

\* One test of while (!client.available()).
WaitPoll ==
  /\ pc = "wait"
  /\ IF MoreToRead(Available)
     THEN /\ pc' = "extract"
          /\ inBraces' = 0
          /\ jsonBufferPos' = 0
          /\ jsonBuffer' = <<>>
          /\ waitMs' = 0
          /\ serialLine' = "Response arriving."
          /\ polls' = 0
          /\ UNCHANGED retries
     ELSE /\ pc' = "waitDelay"
          /\ UNCHANGED <<locals, buffer, serialLine, polls>>
  /\ UNCHANGED <<config, players, status, emptyArray, wire, display, connHist,
                 bufHist, atStart, cycleHist, obsHist, lateByte, renderHist>>

\* The body of the wait loop: delay(RESPONSE_WAIT_INTERVAL_MS) has run, the
\* budget is charged and checked.  Bytes may have arrived during the delay.
WaitDelay ==
  /\ pc = "waitDelay"
  /\ polls' = polls + 1
  /\ IF WaitExpired(waitMs - RESPONSE_WAIT_INTERVAL_MS)
     THEN /\ ReturnError
          /\ serialLine' = "No response."
          /\ lateByte' = (arrived > 0)
     ELSE /\ waitMs' = waitMs - RESPONSE_WAIT_INTERVAL_MS
          /\ pc' = "wait"
          /\ UNCHANGED <<retries, inBraces, status, wire, serialLine, lateByte>>
  /\ UNCHANGED <<config, players, buffer, emptyArray, display, connHist,
                 bufHist, atStart, cycleHist, obsHist, renderHist>>

\* One pass of the extraction loop's body on the byte client.read() returns.
ReadByte ==
  /\ pc = "extract"
  /\ MoreToRead(Available)
  /\ LET b == Stream(response)[nread + 1]
         depth == IF b = "{" THEN inBraces + 1 ELSE inBraces
     IN  IF ShouldAppend(depth)
         THEN /\ jsonBuffer' = Append(jsonBuffer, b)
              /\ jsonBufferPos' = jsonBufferPos + 1
              /\ lastWrite' = jsonBufferPos
              /\ lastAppend' = [did |-> TRUE, depth |-> depth]
              /\ IF BufferFull(jsonBufferPos + 1)
                 THEN /\ ReturnError
                      /\ serialLine' = "Ran out of room for JSON."
                 ELSE /\ inBraces' = IF b = "}" THEN depth - 1 ELSE depth
                      /\ nread' = nread + 1
                      /\ UNCHANGED <<pc, retries, waitMs, status, response,
                                     arrived, serialLine>>
         ELSE /\ inBraces' = IF b = "}" THEN depth - 1 ELSE depth
              /\ nread' = nread + 1
              /\ UNCHANGED <<pc, retries, waitMs, status, response, arrived,
                             buffer, bufHist, serialLine>>
  /\ UNCHANGED <<config, players, emptyArray, display, connHist, atStart,
                 cycleHist, obsHist, waitHist, renderHist>>

\* The loop test fails: the terminator is written at jsonBufferPos.
EndExtract ==
  /\ pc = "extract"
  /\ ~MoreToRead(Available)
  /\ lastWrite' = jsonBufferPos
  /\ serialLine' = "closing connection"
  /\ pc' = "parse"
  /\ UNCHANGED <<config, players, locals, buffer, status, emptyArray, wire,
                 display, connHist, lastAppend, atStart, cycleHist, obsHist,
                 waitHist, renderHist>>

\* deserializeJson, the players lookup and the return of the status.  The
\* assignment to status.playersSample goes through the reference to
\* emptyArray; deserializeJson clears the document emptyArray may point into.
Parse ==
  /\ pc = "parse"
  /\ LET doc == Deserialize(jsonBuffer)
     IN  IF doc.error
         THEN /\ ReturnError
              /\ serialLine' = "deserializeJson() failed: "
              /\ emptyArray' \in StaleSamples(emptyArray)
              /\ UNCHANGED obsHist
         ELSE IF MissingPlayers(doc)
         THEN /\ ReturnError
              /\ serialLine' = "Nobody online."
              /\ emptyArray' \in StaleSamples(emptyArray)
              /\ UNCHANGED obsHist
         ELSE /\ status' = ServerStatus(FALSE, doc.online)
              /\ serialLine' = "Online: "
              /\ emptyArray' = doc.sample
              /\ sameObserved' = (successes >= 1 /\ doc.sample = observed)
              /\ observed' = doc.sample
              /\ pc' = "reconcile"
              /\ retries' = 0
              /\ waitMs' = 0
              /\ inBraces' = 0
              /\ response' = NoResponse
              /\ arrived' = 0
              /\ nread' = 0
  /\ UNCHANGED <<config, players, buffer, display, connHist, bufHist, atStart,
                 cycleHist, waitHist, renderHist>>

\* ---------------------------------------------------------------------- loop
\* status.playersSample: the reference member, bound to emptyArray.
PlayersSample == emptyArray

\* Adafruit_NeoPixel::setPixelColor as the sketch uses it: an index that is
\* not on the strip changes nothing.
SetPixelColor(px, n, c) ==
  IF n \in Leds THEN [px EXCEPT ![n] = c] ELSE px

\* Mutant: a failed cycle takes every slot offline for the cycle.
FailedBranchSlots_Decay(was, is) ==
  [was |-> was, is |-> [p \in Slots |-> FALSE]]

\* Mutant: a failed cycle forgets who was online.
FailedBranchSlots_Forget(was, is) ==
  [was |-> [p \in Slots |-> FALSE], is |-> is]

\* What the failed branch of loop() does to the slots: nothing.
FailedBranchSlots(was, is) == [was |-> was, is |-> is]

\* strobeColor: for (int i = 0; i <= NUM_LEDS; i++)
StrobeMore(i) == i <= NUM_LEDS

\* Mutant: the pixel is left lit when the spot moves on.
StrobeAfter_Lit(px, i, c) == px

\* strobeColor: strip.setPixelColor(i, COLOR_OFF) after the delay
StrobeAfter(px, i, c) == SetPixelColor(px, i, COLOR_OFF)

\* One pass of strobeColor(COLOR_ERROR)'s loop: the pixel is set and shown,
\* and set back to off (not shown yet) after the delay.
StrobeStep ==
  /\ pc = "failed"
  /\ status.error
  /\ StrobeMore(strobeI)
  /\ LET lit == SetPixelColor(pixels, strobeI, COLOR_ERROR)
     IN  /\ strip' = lit
         /\ pixels' = StrobeAfter(lit, strobeI, COLOR_ERROR)
  /\ setLog' = setLog \o << <<strobeI, COLOR_ERROR>>, <<strobeI, COLOR_OFF>> >>
  /\ commits' = commits + 1
  /\ strobeI' = strobeI + 1
  /\ UNCHANGED <<config, players, pc, locals, buffer, status, emptyArray, wire,
                 connHist, bufHist, atStart, cycleHist, obsHist, serialLine,
                 waitHist>>

\* strobeColor's last strip.show(); the failed branch of loop() is done.
StrobeEnd ==
  /\ pc = "failed"
  /\ status.error
  /\ ~StrobeMore(strobeI)
  /\ strip' = pixels
  /\ commits' = commits + 1
  /\ strobeI' = 0
  /\ wasOnline' = FailedBranchSlots(wasOnline, isOnline).was
  /\ isOnline' = FailedBranchSlots(wasOnline, isOnline).is
  /\ pc' = "delay"
  /\ UNCHANGED <<config, locals, buffer, status, emptyArray, wire, pixels,
                 connHist, bufHist, atStart, cycleHist, obsHist, serialLine,
                 waitHist, setLog>>

\* Mutant: the slots keep their online flags.
ClearOnline_Keep == isOnline

\* loop(): clearOnline on every slot.
ClearOnline == [p \in Slots |-> FALSE]

\* The clear loop and the match loop over status.playersSample.
Reconcile ==
  /\ pc = "reconcile"
  /\ ~status.error
  /\ isOnline' = MatchSample(roster, ClearOnline, PlayersSample, 1)
  /\ pc' = "render"
  /\ UNCHANGED <<config, wasOnline, locals, buffer, status, emptyArray, wire,
                 display, connHist, bufHist, atStart, cycleHist, obsHist,
                 serialLine, waitHist, renderHist>>

\* Mutant: the pixel loop runs one index too far.
RenderMore_Over(i) == i <= NUM_LEDS

\* loop(): for (int i = 0; i < NUM_LEDS; i++)
RenderMore(i) == i < NUM_LEDS

\* loop(): the pixel loop from index i on.  It returns the slots' wasOnline,
\* the pixel buffer and the setPixelColor requests made.
RECURSIVE RenderLoop(_, _, _, _, _)
RenderLoop(i, was, is, px, log) ==
  IF ~RenderMore(i) THEN [was |-> was, pixels |-> px, log |-> log]
  ELSE IF i < NUM_PLAYERS
  THEN LET upd == GetColorAndUpdate(was[i], is[i])
       IN  RenderLoop(i + 1, [was EXCEPT ![i] = upd.wasOnline], is,
                      SetPixelColor(px, i, upd.color),
                      Append(log, <<i, upd.color>>))
  ELSE RenderLoop(i + 1, was, is, SetPixelColor(px, i, COLOR_OFF),
                  Append(log, <<i, COLOR_OFF>>))

\* The loop over the pixels and strip.show().
Render ==
  /\ pc = "render"
  /\ LET r == RenderLoop(0, wasOnline, isOnline, pixels, <<>>)
     IN  /\ pixels' = r.pixels
         /\ strip' = r.pixels
         /\ wasOnline' = r.was
         /\ setLog' = r.log
         /\ color' = [p \in Slots |-> r.pixels[p]]
  /\ commits' = 1
  /\ claimed' = isOnline
  /\ sameObserved' = FALSE
  /\ successes' = IF successes < 2 THEN successes + 1 ELSE 2
  /\ pc' = "delay"
  /\ UNCHANGED <<config, isOnline, locals, buffer, status, emptyArray, wire,
                 strobeI, connHist, bufHist, atStart, observed, serialLine,
                 waitHist>>

\* delay(FETCH_PERIOD_MS); loop() returns and is called again.  What the
\* buffer holds is dead from here on: the next extraction starts at index 0
\* and nothing reads the array before that.
Delay ==
  /\ pc = "delay"
  /\ pc' = "fetch"
  /\ jsonBufferPos' = 0
  /\ jsonBuffer' = <<>>
  /\ UNCHANGED <<config, players, locals, status, emptyArray, wire, display,
                 connHist, bufHist, atStart, cycleHist, obsHist, serialLine,
                 waitHist, renderHist>>

\* The steps of the sketch itself.
Step ==
  \/ BeginFetch
  \/ \E ok \in BOOLEAN : Connect(ok)
  \/ SendRequest
  \/ WaitPoll
  \/ WaitDelay
  \/ ReadByte
  \/ EndExtract
  \/ Parse
  \/ StrobeStep
  \/ StrobeEnd
  \/ Reconcile
  \/ Render
  \/ Delay

Next == Step \/ Arrive

Spec == Init /\ [][Next]_vars

SpecStream == InitStream /\ [][Next]_vars

\* The sketch is the only thread and loop() is called again whenever it
\* returns: a step of the sketch that can be taken is taken.  Nothing is
\* assumed about the network.
SpecFair == InitFair /\ [][Next]_vars /\ WF_vars(Step)

\* ------------------------------------------------------- the earlier sketches
\* The state every sketch starts from, with the thread at the position at.
InitAt(at) ==
  /\ wasOnline = [p \in Slots |-> FALSE]
  /\ isOnline = [p \in Slots |-> FALSE]
  /\ pc = at
  /\ retries = 0
  /\ waitMs = 0
  /\ inBraces = 0
  /\ jsonBufferPos = 0
  /\ jsonBuffer = <<>>
  /\ status = ServerStatus(FALSE, 0)
  /\ emptyArray = <<>>
  /\ response = NoResponse
  /\ arrived = 0
  /\ nread = 0
  /\ strip = [i \in Leds |-> COLOR_OFF]
  /\ attempts = 0
  /\ connected = FALSE
  /\ requests = 0
  /\ lastWrite = -1
  /\ lastAppend = NoAppend
  /\ atStart = [was |-> wasOnline, is |-> isOnline]
  /\ claimed = [p \in Slots |-> FALSE]
  /\ successes = 0
  /\ observed = <<>>
  /\ sameObserved = FALSE
  /\ color = [p \in Slots |-> COLOR_OFF]
  /\ pixels = [i \in Leds |-> COLOR_OFF]
  /\ strobeI = 0
  /\ serialLine = ""
  /\ polls = 0
  /\ lateByte = FALSE
  /\ setLog = <<>>
  /\ commits = 0

\* unnamed/part_000, PlayerLed::getColorAndUpdate: the color returned and the
\* new wasOnline.
TrackerGetColorAndUpdate(was, is) ==
  [color |-> IF was /\ is THEN COLOR_ONLINE
             ELSE IF was /\ ~is THEN COLOR_JOINED
             ELSE IF ~was /\ is THEN COLOR_LEFT
             ELSE COLOR_OFF,
   wasOnline |-> is]

\* What a call on one PlayerLed leaves alone.
notPlayerLed == <<config, pc, locals, buffer, status, emptyArray, wire,
                  display, connHist, bufHist, atStart, claimed, successes,
                  obsHist, serialLine, waitHist, renderHist>>

\* unnamed/part_000, PlayerLed::PlayerLed(iName) for every slot, whatever the
\* names.
InitTracker ==
  /\ roster \in AllRosters
  /\ responses = PlainResponses
  /\ InitAt("tracker")

\* unnamed/part_000, players[p].clearOnline()
CallClearOnline(p) ==
  /\ pc = "tracker"
  /\ isOnline' = [isOnline EXCEPT ![p] = FALSE]
  /\ UNCHANGED <<wasOnline, color, notPlayerLed>>

\* unnamed/part_000, players[p].setOnline()
CallSetOnline(p) ==
  /\ pc = "tracker"
  /\ isOnline' = [isOnline EXCEPT ![p] = TRUE]
  /\ UNCHANGED <<wasOnline, color, notPlayerLed>>

\* unnamed/part_000, players[p].getColorAndUpdate()
CallGetColorAndUpdate(p) ==
  /\ pc = "tracker"
  /\ LET upd == TrackerGetColorAndUpdate(wasOnline[p], isOnline[p])
     IN  /\ color' = [color EXCEPT ![p] = upd.color]
         /\ wasOnline' = [wasOnline EXCEPT ![p] = upd.wasOnline]
  /\ UNCHANGED <<isOnline, notPlayerLed>>

\* The calls of unnamed/part_000 on its trackers, in any order.
NextTracker ==
  \/ \E p \in Slots : CallClearOnline(p)
  \/ \E p \in Slots : CallSetOnline(p)
  \/ \E p \in Slots : CallGetColorAndUpdate(p)

SpecTracker == InitTracker /\ [][NextTracker]_vars

\* ------------------------------------------- the sketch of unnamed/part_001
\* What loop() of unnamed/part_001 has no use for: it keeps no roster, no
\* status record and no strip.
notFirstSketch == <<config, players, retries, waitMs, status, emptyArray,
                    display, connHist, atStart, cycleHist, obsHist, waitHist,
                    renderHist>>

\* The lines loop() of unnamed/part_001 may end a pass with once it has
\* written and parsed past the end of jsonBuffer.
FirstOutcomeLines ==
  {"deserializeJson() failed: ", "Nobody online.", "Online: "}

\* unnamed/part_001, setup(): one server, against every shape of response.
InitFirst ==
  /\ roster = [p \in Slots |-> IF p = 0 THEN "Alice" ELSE Wildcard]
  /\ responses = AllResponses
  /\ InitAt("connect")

\* delay(5000), client.connect and, when it succeeds, client.print of the
\* request; a failed connect returns from loop().
FirstConnect(ok) ==
  /\ pc = "connect"
  /\ lastWrite' = -1
  /\ lastAppend' = NoAppend
  /\ IF ok
     THEN /\ \E r \in responses : response' = r
          /\ arrived' = 0
          /\ nread' = 0
          /\ serialLine' = "Waiting for response."
          /\ pc' = "wait"
     ELSE /\ serialLine' = "connection failed"
          /\ UNCHANGED <<pc, wire>>
  /\ UNCHANGED <<inBraces, buffer, notFirstSketch>>

\* while (!client.available()) ends; the sketch waits without a limit.
FirstWaitPoll ==
  /\ pc = "wait"
  /\ MoreToRead(Available)
  /\ inBraces' = 0
  /\ jsonBufferPos' = 0
  /\ jsonBuffer' = <<>>
  /\ serialLine' = "Response arriving."
  /\ pc' = "extract"
  /\ UNCHANGED <<wire, bufHist, notFirstSketch>>

\* One pass of the extraction loop's body; a full buffer breaks out of the
\* loop.
FirstReadByte ==
  /\ pc = "extract"
  /\ MoreToRead(Available)
  /\ LET b == Stream(response)[nread + 1]
         depth == IF b = "{" THEN inBraces + 1 ELSE inBraces
     IN  /\ nread' = nread + 1
         /\ IF ShouldAppend(depth)
            THEN /\ jsonBuffer' = Append(jsonBuffer, b)
                 /\ jsonBufferPos' = jsonBufferPos + 1
                 /\ lastWrite' = jsonBufferPos
                 /\ lastAppend' = [did |-> TRUE, depth |-> depth]
                 /\ IF BufferFull(jsonBufferPos + 1)
                    THEN /\ serialLine' = "Ran out of room for JSON."
                         /\ inBraces' = depth
                         /\ pc' = "terminate"
                    ELSE /\ inBraces' = IF b = "}" THEN depth - 1 ELSE depth
                         /\ UNCHANGED <<pc, serialLine>>
            ELSE /\ inBraces' = IF b = "}" THEN depth - 1 ELSE depth
                 /\ UNCHANGED <<pc, buffer, bufHist, serialLine>>
  /\ UNCHANGED <<response, arrived, notFirstSketch>>

\* The loop test fails.
FirstEndExtract ==
  /\ pc = "extract"
  /\ ~MoreToRead(Available)
  /\ pc' = "terminate"
  /\ UNCHANGED <<inBraces, buffer, wire, bufHist, serialLine, notFirstSketch>>

\* jsonBuffer[jsonBufferPos] = '\0', after the loop however it ended.
FirstTerminate ==
  /\ pc = "terminate"
  /\ lastWrite' = jsonBufferPos
  /\ serialLine' = "closing connection"
  /\ pc' = "parse"
  /\ UNCHANGED <<inBraces, buffer, wire, lastAppend, notFirstSketch>>

\* deserializeJson and the report; loop() returns.  After a write past the
\* end of jsonBuffer what the parser reads is not defined.
FirstParse ==
  /\ pc = "parse"
  /\ LET doc == Deserialize(jsonBuffer)
     IN  IF lastWrite >= MAX_JSON_SIZE
         THEN serialLine' \in FirstOutcomeLines
         ELSE serialLine' = IF doc.error THEN "deserializeJson() failed: "
                            ELSE IF MissingPlayers(doc) THEN "Nobody online."
                            ELSE "Online: "
  /\ inBraces' = 0
  /\ jsonBufferPos' = 0
  /\ jsonBuffer' = <<>>
  /\ response' = NoResponse
  /\ arrived' = 0
  /\ nread' = 0
  /\ pc' = "connect"
  /\ UNCHANGED <<bufHist, notFirstSketch>>

NextFirst ==
  \/ \E ok \in BOOLEAN : FirstConnect(ok)
  \/ FirstWaitPoll
  \/ FirstReadByte
  \/ FirstEndExtract
  \/ FirstTerminate
  \/ FirstParse
  \/ Arrive

SpecFirst == InitFirst /\ [][NextFirst]_vars

\* ===================================================================== claims

\* C1: in every cycle in which fetchServerStatus returned a failed status,
\* whatever the failure, every slot's wasOnline and isOnline are the same
\* from the return to the end of the cycle as they were when the cycle
\* started.
C1_FrozenOnFailure ==
  (status.error /\ pc \in {"failed", "delay", "fetch"})
    => (wasOnline = atStart.was /\ isOnline = atStart.is)

\* A failed cycle has ended after a successful one left a slot online.
C1_Witness ==
  /\ pc = "delay"
  /\ status.error
  /\ successes >= 1
  /\ \E p \in Slots : atStart.was[p] /\ atStart.is[p]

C2_Table(before, now) ==
  IF ~before /\ now THEN "Joined"
  ELSE IF before /\ now THEN "Online"
  ELSE IF before /\ ~now THEN "Left"
  ELSE "Off"

\* C2: the render of a successful cycle that follows an earlier successful
\* cycle (failed cycles may lie between) derives for every slot the color
\* the table gives for (claimed at the earlier cycle, claimed at this one),
\* and when both cycles observed the same names every color is Online or Off.
C2_ColorTable ==
  [][(pc = "render" /\ pc' = "delay" /\ successes >= 1)
       => /\ \A p \in Slots :
               /\ color'[p] = C2_Table(claimed[p], claimed'[p])
               /\ strip'[p] = color'[p]
          /\ sameObserved => \A p \in Slots : color'[p] \in {"Online", "Off"}]_vars

\* A second successful cycle in which one slot left and the other joined.
C2_Witness ==
  /\ pc = "delay"
  /\ ~status.error
  /\ successes = 2
  /\ color[0] = "Left"
  /\ color[1] = "Joined"

C3_SlotMatches(p, n) == roster[p] = Wildcard \/ roster[p] = n

\* C3: after the reconcile step of a successful cycle slot p is online iff
\* some observed name matches p and no slot of smaller index; with roster
\* [Wildcard, Alice] and observed [Alice] only the Wildcard slot is online;
\* with roster [Bob, Wildcard], observed [Bob] and every slot offline before,
\* the colors are [Joined, Off].
C3_FirstMatchWins ==
  /\ pc = "render" =>
       /\ \A p \in Slots :
            isOnline[p] <=>
              \E i \in 1 .. Len(observed) :
                /\ C3_SlotMatches(p, observed[i])
                /\ \A q \in Slots : q < p => ~C3_SlotMatches(q, observed[i])
       /\ (roster[0] = Wildcard /\ roster[1] = "Alice"
             /\ observed = <<"Alice">>)
            => (isOnline[0] /\ ~isOnline[1])
  /\ (pc = "delay" /\ ~status.error /\ roster[0] = "Bob"
        /\ roster[1] = Wildcard /\ observed = <<"Bob">>
        /\ \A p \in Slots : ~atStart.was[p])
       => (color[0] = "Joined" /\ color[1] = "Off")

\* The Wildcard slot ahead of the Alice slot has claimed Alice.
C3_Witness ==
  /\ pc = "render"
  /\ roster[0] = Wildcard
  /\ roster[1] = "Alice"
  /\ observed = <<"Alice">>
  /\ isOnline[0]
  /\ ~isOnline[1]

\* Brace depth after the first k bytes of a sequence.
RECURSIVE C4_Depth(_, _)
C4_Depth(bytes, k) ==
  IF k = 0 THEN 0
  ELSE C4_Depth(bytes, k - 1)
         + (IF bytes[k] = "{" THEN 1 ELSE IF bytes[k] = "}" THEN -1 ELSE 0)

\* One balanced object: the first brace is closed by the last byte.
C4_Balanced(bytes) ==
  /\ Len(bytes) >= 2
  /\ bytes[1] = "{"
  /\ C4_Depth(bytes, Len(bytes)) = 0
  /\ \A k \in 1 .. (Len(bytes) - 1) : C4_Depth(bytes, k) > 0

C4_BraceFree(bytes) == \A k \in 1 .. Len(bytes) : bytes[k] \notin {"{", "}"}

\* The response has the form the claim is about: no brace outside the body,
\* a balanced body that fits the buffer together with its terminator.
C4_WellFormed ==
  /\ C4_BraceFree(response.pre)
  /\ C4_BraceFree(response.post)
  /\ C4_Balanced(response.body)
  /\ Len(response.body) < MAX_JSON_SIZE

\* C4: whenever the response is preamble + J + trailer with J balanced and
\* fitting and no brace in preamble or trailer, the buffer handed to the
\* parser is exactly J.
C4_ExtractionCorrect ==
  (pc = "parse" /\ C4_WellFormed) => jsonBuffer = response.body

\* C4, for the responses that had arrived whole when the loop ended.
C4_ExtractionCorrectWhenArrived ==
  (pc = "parse" /\ C4_WellFormed /\ arrived = Len(Stream(response)))
    => jsonBuffer = response.body

\* C5: no write to jsonBuffer, the terminator included, is at an index of
\* MAX_JSON_SIZE or more, and a response whose balanced body is longer than
\* the capacity never gets its buffer handed to deserializeJson.
C5_OverflowSafety ==
  /\ lastWrite < MAX_JSON_SIZE
  /\ pc = "parse" =>
       ~(C4_Balanced(response.body) /\ Len(response.body) > MAX_JSON_SIZE)

\* C5, the part about the indices alone.
C5_WritesInBounds == lastWrite < MAX_JSON_SIZE

\* C6: a byte is appended only at a brace depth (counted after an opening
\* brace) greater than 0.
C6_AppendOnlyInsideBraces == lastAppend.did => lastAppend.depth > 0

\* C7: when the extraction loop ends and hands the buffer to the parser, it
\* has read every byte of the response the peer sends.
C7_ConsumesWholeResponse ==
  pc = "parse" => nread = Len(Stream(response))

\* C8: a slot whose latest derived color is Joined gets Online or Left at
\* the next successful render, one whose latest is Left gets Off or Joined,
\* whatever failed cycles lie between the two renders.
C8_EdgeMarkersOneCycle ==
  [][(pc = "render" /\ pc' = "delay" /\ successes >= 1)
       => \A p \in Slots :
            /\ color[p] = "Joined" => color'[p] \in {"Online", "Left"}
            /\ color[p] = "Left" => color'[p] \in {"Off", "Joined"}]_vars

\* A successful cycle is about to render a slot that is claimed again, after
\* a render that showed it Joined and a failed cycle that blanked the strip.
C8_Witness ==
  /\ pc = "render"
  /\ successes >= 1
  /\ color[0] = "Joined"
  /\ strip[0] = "Off"
  /\ isOnline[0]

C9_NamedIdentities == { roster[q] : q \in { r \in Slots : roster[r] # Wildcard } }

\* C9: after the reconcile step a Wildcard slot is online iff some observed
\* name is the identity of no specific-name slot of the roster.
C9_WildcardClaimsUnclaimed ==
  pc = "render" =>
    \A p \in Slots :
      roster[p] = Wildcard =>
        (isOnline[p] <=>
           \E i \in 1 .. Len(observed) : observed[i] \notin C9_NamedIdentities)

\* C9 amended: after the reconcile step a Wildcard slot is online iff no
\* Wildcard slot precedes it in the roster and some observed name is the
\* identity of no specific-name slot that precedes it in the roster.
C9_WildcardClaimsUnclaimedBefore ==
  pc = "render" =>
    \A p \in Slots :
      roster[p] = Wildcard =>
        (isOnline[p] <=>
           /\ \A q \in Slots : q < p => roster[q] # Wildcard
           /\ \E i \in 1 .. Len(observed) :
                \A q \in Slots : q < p => roster[q] # observed[i])

\* The Wildcard slot ahead of the Alice slot has claimed both names.
C9_Witness ==
  /\ pc = "render"
  /\ roster[0] = Wildcard
  /\ roster[1] = "Alice"
  /\ observed = <<"Bob", "Alice">>
  /\ isOnline[0]
  /\ ~isOnline[1]

\* C10: a cycle makes between 1 and CONNECTION_RETRIES connection attempts;
\* a failed attempt within the budget leads to another attempt, the one that
\* exhausts it ends the cycle as failed; the request is written once in a
\* cycle whose attempt succeeded and not at all in any other.
C10_RetryBudget ==
  /\ [](/\ attempts \in 0 .. CONNECTION_RETRIES
        /\ requests \in {0, 1}
        /\ pc = "request" => (connected /\ attempts >= 1 /\ requests = 0)
        /\ requests = 1 => connected
        /\ (connected /\ pc # "request") => requests = 1
        /\ pc \in {"wait", "waitDelay", "extract", "parse", "reconcile",
                  "render"}
             => requests = 1
        /\ (pc \in {"failed", "delay"} /\ ~connected)
             => (attempts = CONNECTION_RETRIES /\ requests = 0 /\ status.error))
  /\ [][(pc = "connect" /\ attempts' = attempts + 1 /\ ~connected')
          => IF attempts' < CONNECTION_RETRIES
             THEN pc' = "connect" /\ requests' = 0
             ELSE pc' = "failed" /\ status'.error /\ requests' = 0]_vars

\* The last attempt the budget allows has succeeded.
C10_Witness ==
  /\ pc = "request"
  /\ connected
  /\ attempts = CONNECTION_RETRIES

\* The polling intervals the first-byte budget pays for.
C11_MaxPolls == MAX_RESPONSE_WAIT_TIME_MS \div RESPONSE_WAIT_INTERVAL_MS

\* C11: the wait for the first byte never lasts more than
\* MAX_RESPONSE_WAIT_TIME_MS / RESPONSE_WAIT_INTERVAL_MS polling intervals
\* and gives up after exactly that many, and it gives up only if no byte
\* arrived within them.
C11_BoundedFirstByteWait ==
  /\ polls <= C11_MaxPolls
  /\ serialLine = "No response." => (polls = C11_MaxPolls /\ status.error)
  /\ serialLine = "No response." => ~lateByte

\* C11, the part about the length of the wait alone.
C11_WaitIsBounded ==
  /\ polls <= C11_MaxPolls
  /\ serialLine = "No response." => (polls = C11_MaxPolls /\ status.error)

\* The last line of a cycle whose fetch has returned, for each outcome.
C12_OutcomeLines ==
  {"Online: ", "connection failed", "No response.",
   "Ran out of room for JSON.", "deserializeJson() failed: ", "Nobody online."}

C12_AfterFetch == {"failed", "reconcile", "render", "delay"}

C13_FailedRecordInvariant ==
  (pc = "failed" /\ status.error)
    => (status.numOnline = 0 /\ PlayersSample = <<>>)

\* The status line 209 returns when the retry budget is exhausted.
C14_ConnectionFailedStatus == [error |-> TRUE, numOnline |-> 0]

\* C14: the status returned when the first-byte wait ran out differs from
\* the status returned when the connection retries ran out.
C14_TimeoutDistinct ==
  (pc = "failed" /\ polls = C11_MaxPolls)
    => status # C14_ConnectionFailedStatus

\* C14 amended: the two outcomes return the same status, ofError(), and
\* differ only in the line written to Serial: "No response." after the wait
\* ran out, "connection failed" after the retries ran out.
C14_TimeoutSameStatus ==
  /\ (pc = "failed" /\ polls = C11_MaxPolls)
       => (status = C14_ConnectionFailedStatus /\ serialLine = "No response.")
  /\ (pc = "failed" /\ ~connected)
       => (status = C14_ConnectionFailedStatus
             /\ serialLine = "connection failed")

\* The wait has run out on a connection that was made.
C14_Witness ==
  /\ pc = "failed"
  /\ connected
  /\ polls = C11_MaxPolls
  /\ serialLine = "No response."

\* A complete JSON object without a players member.
C15_ObjectWithoutPlayers(buf) ==
  /\ Len(buf) >= 2
  /\ buf[1] = "{"
  /\ buf[Len(buf)] = "}"
  /\ \A k \in 2 .. (Len(buf) - 1) : buf[k] = "x"

\* C15: a buffer holding valid JSON without a players member makes
\* fetchServerStatus return a failed status; the cycle then leaves the
\* roster as it was, shows the error color, sleeps, and the next cycle's
\* connect loop is entered.
C15_MissingFieldHandled ==
  /\ [][(pc = "parse" /\ C15_ObjectWithoutPlayers(jsonBuffer))
          => (pc' = "failed" /\ status'.error
                /\ serialLine' = "Nobody online.")]_vars
  /\ []((pc \in {"failed", "delay"} /\ serialLine = "Nobody online.")
          => (status.error /\ wasOnline = atStart.was
                /\ isOnline = atStart.is))
  /\ []((pc = "delay" /\ serialLine = "Nobody online.")
          => (commits >= 1
                /\ \E k \in 1 .. Len(setLog) : setLog[k][2] = "Error"))
  /\ (pc = "failed" /\ serialLine = "Nobody online.") ~> (pc = "delay")
  /\ (pc = "delay" /\ serialLine = "Nobody online.")
       ~> (pc = "connect" /\ attempts = 0)

\* A cycle that found no players member sleeps, a slot still online.
C15_Witness ==
  /\ pc = "delay"
  /\ serialLine = "Nobody online."
  /\ status.error
  /\ \E p \in Slots : wasOnline[p] /\ isOnline[p]

\* The set-color requests of a successful render: one per position, in
\* index order, the slot's table color below NUM_PLAYERS and Off above.
C16_ExpectedRequests ==
  [k \in 1 .. NUM_LEDS |->
     <<k - 1,
       IF (k - 1) \in Slots
         THEN C2_Table(atStart.was[k - 1], isOnline[k - 1])
         ELSE COLOR_OFF>>]

\* C16: the render of a successful cycle issues exactly one set-color
\* request for every position 0 .. NUM_LEDS - 1 and no other, with the
\* slot's color (derived once, from the flags the cycle started the render
\* with) below NUM_PLAYERS and Off from there on, followed by exactly one
\* commit.
C16_SuccessRenderMapping ==
  (pc = "delay" /\ ~status.error)
    => (setLog = C16_ExpectedRequests /\ commits = 1 /\ strip = pixels)

\* A successful render that showed a join on position 0.
C16_Witness ==
  /\ pc = "delay"
  /\ ~status.error
  /\ Len(setLog) = NUM_LEDS
  /\ setLog[1] = <<0, COLOR_JOINED>>
  /\ setLog[NUM_LEDS] = <<NUM_LEDS - 1, COLOR_OFF>>

C17_RosterColors == {COLOR_ONLINE, COLOR_JOINED, COLOR_LEFT}

C18_Overflowed == serialLine = "Ran out of room for JSON."

\* C18: a response whose appended bytes number at most MAX_JSON_SIZE is
\* extracted without the overflow outcome.
C18_OverflowThreshold ==
  (pc \in {"extract", "failed", "parse"} /\ jsonBufferPos <= MAX_JSON_SIZE)
    => ~C18_Overflowed

\* C18 amended: extraction signals the overflow exactly when the number of
\* appended bytes reaches MAX_JSON_SIZE, one place being kept for the
\* terminator: a response with MAX_JSON_SIZE - 1 appended bytes is
\* extracted, one with MAX_JSON_SIZE appended bytes is refused.
C18_OverflowAtCapacity ==
  /\ (pc = "failed" /\ C18_Overflowed) => jsonBufferPos = MAX_JSON_SIZE
  /\ jsonBufferPos >= MAX_JSON_SIZE
       => (jsonBufferPos = MAX_JSON_SIZE /\ C18_Overflowed
             /\ pc \in {"failed", "delay"} /\ status.error)
  /\ pc = "parse" => (jsonBufferPos <= MAX_JSON_SIZE - 1 /\ ~C18_Overflowed)

\* A response of MAX_JSON_SIZE - 1 appended bytes has been extracted.
C18_Witness ==
  /\ pc = "parse"
  /\ jsonBufferPos = MAX_JSON_SIZE - 1
  /\ Len(jsonBuffer) = MAX_JSON_SIZE - 1
  /\ ~C18_Overflowed

\* C19: a response with a players object and no sample entries is a
\* success; the cycle marks every slot offline, and its render shows
\* JustLeft on the slots that were online and Off on the others.
C19_EmptySampleIsSuccess ==
  /\ [][(pc = "parse" /\ jsonBuffer = PlayersDoc(<<>>))
          => (pc' = "reconcile" /\ ~status'.error /\ PlayersSample' = <<>>)]_vars
  /\ [][(pc = "reconcile" /\ PlayersSample = <<>>)
          => \A p \in Slots : ~isOnline'[p]]_vars
  /\ [][(pc = "render" /\ PlayersSample = <<>>)
          => \A p \in Slots :
               /\ color'[p] = IF wasOnline[p] THEN COLOR_LEFT ELSE COLOR_OFF
               /\ strip'[p] = color'[p]
               /\ ~wasOnline'[p]]_vars

\* An empty sample turned an online slot to JustLeft.
C19_Witness ==
  /\ pc = "delay"
  /\ ~status.error
  /\ observed = <<>>
  /\ atStart.was[0]
  /\ strip[0] = COLOR_LEFT
  /\ strip[1] = COLOR_OFF

\* C20: the count of every status that is not failed is at least 0.
C20_NonNegativeCount ==
  (pc \in {"reconcile", "render", "delay"} /\ ~status.error)
    => status.numOnline >= 0

\* C21: outside the render step of a successful cycle every slot has
\* wasOnline equal to isOnline: at the start, at the end of every cycle,
\* failed or successful, and all through a failed cycle; the two flags
\* differ only between the clear/match step of a successful cycle and the
\* getColorAndUpdate calls of its render.
C21_CommittedAtBoundaries ==
  /\ pc # "render" => \A p \in Slots : wasOnline[p] = isOnline[p]
  /\ pc = "render" => ~status.error
  /\ pc = "delay" => \A p \in Slots : wasOnline[p] = isOnline[p]

\* A cycle in which slot 0 joined has ended with the join committed, and a
\* cycle between match and render holds a transition not yet committed.
C21_Witness ==
  /\ pc = "delay"
  /\ ~status.error
  /\ color[0] = COLOR_JOINED
  /\ wasOnline[0]
  /\ isOnline[0]

\* A successful cycle between its match step and its render, one slot's
\* flags apart.
C21_WitnessInside ==
  /\ pc = "render"
  /\ \E p \in Slots : wasOnline[p] # isOnline[p]

\* C22: every setPixelColor request of strobeColor addresses a position of
\* the strip, 0 .. NUM_LEDS - 1.
C22_StrobeOnStrip ==
  status.error => \A k \in 1 .. Len(setLog) : setLog[k][1] \in Leds

\* C23: every call on a PlayerLed of unnamed/part_000, after any sequence of
\* clearOnline, setOnline and getColorAndUpdate calls, leaves the color and
\* the wasOnline that PlayerLed::getColorAndUpdate of minecraftwifi.ino
\* gives for the same wasOnline and isOnline.
C23_VariantAgreement ==
  [][\A p \in Slots :
       (color'[p] # color[p] \/ wasOnline'[p] # wasOnline[p])
         => LET main == GetColorAndUpdate(wasOnline[p], isOnline[p])
            IN  /\ color'[p] = main.color
                /\ wasOnline'[p] = main.wasOnline]_vars

\* C23, the flag alone: the variant commits wasOnline as minecraftwifi.ino
\* does.
C23_SameWasOnline ==
  [][\A p \in Slots :
       wasOnline'[p] # wasOnline[p]
         => wasOnline'[p] = GetColorAndUpdate(wasOnline[p], isOnline[p]).wasOnline]_vars

\* C24: in unnamed/part_001 no write to jsonBuffer, the terminator written
\* after the loop included, is at an index of MAX_JSON_SIZE or more, and a
\* buffer that ran out of room is not handed to deserializeJson.
C24_FirstSketchOverflowSafety ==
  /\ lastWrite < MAX_JSON_SIZE
  /\ pc = "parse" => ~BufferFull(jsonBufferPos)

\* C24, the appends alone: every byte the loop appends is inside the buffer.
C24_AppendsInBounds ==
  pc \in {"extract", "terminate"} => lastWrite < MAX_JSON_SIZE

====
